---- MODULE Spec2Model ----
(***************************************************************************)
(* india-numbertowords: the number-to-words engine (engine.py) and the     *)
(* language registry (__init__.py).                                        *)
(*                                                                         *)
(* A Python string is a sequence of characters.  An input character is a   *)
(* one-character string.  In the output a vocabulary word is one           *)
(* indivisible non-whitespace unit and the blank " " is the only           *)
(* whitespace, so an output string is a sequence of words and blanks.      *)
(* An input value (int or str) and the classifier's 'value' (int, str or   *)
(* None) are tagged records [kind, n, s].                                  *)
(***************************************************************************)
EXTENDS Integers, Sequences, FiniteSets, TLC

VARIABLES engines, supported, pc, input_val, lang, mode, result, raised, delegated, returned,
          frames, visit

vars ==
  <<engines, supported, pc, input_val, lang, mode, result, raised, delegated, returned,
    frames, visit>>

\* ------------------------------------------------------------------ bounds

\* Longest string enumerated over the whole input alphabet.
MaxLen == 3

\* Integers -MaxInt..MaxInt are all inputs, next to the landmark values.
MaxInt == 24

\* ------------------------------------------------------ characters, strings

DigitChars == <<"0", "1", "2", "3", "4", "5", "6", "7", "8", "9">>

Digits == {DigitChars[i] : i \in 1..10}

\* The letters that occur: those of str(None), a lowercase letter, and a
\* letter ("λ") that no alphabet table has.
Letters == {"N", "o", "n", "e", "a", "λ"}

\* Characters that str.isdigit() accepts and int() rejects (superscripts,
\* circled digits): "²" stands for them.
NonDecimalDigits == {"²"}

IsDigit(c) == c \in Digits \cup NonDecimalDigits

IsAlpha(c) == c \in Letters

IsSpace(c) == c = " "

Upper(c) ==
  CASE c = "a" -> "A"
    [] c = "o" -> "O"
    [] c = "n" -> "N"
    [] c = "e" -> "E"
    [] c = "λ" -> "Λ"
    [] OTHER -> c

DigitVal(c) == (CHOOSE i \in 1..10 : DigitChars[i] = c) - 1

RECURSIVE NatToStr(_)
NatToStr(n) ==
  IF n < 10 THEN <<DigitChars[n + 1]>>
  ELSE NatToStr(n \div 10) \o <<DigitChars[(n % 10) + 1]>>

IntToStr(n) == IF n < 0 THEN <<"-">> \o NatToStr(0 - n) ELSE NatToStr(n)

RECURSIVE StrToInt(_)
StrToInt(s) ==
  IF s = <<>> THEN 0
  ELSE 10 * StrToInt(SubSeq(s, 1, Len(s) - 1)) + DigitVal(s[Len(s)])

\* int(s), for an s that passed isdigit(), raises ValueError.
IntRaises(s) == \E i \in 1..Len(s) : s[i] \in NonDecimalDigits

NoneStr == <<"N", "o", "n", "e">>

IntVal(n) == [kind |-> "int", n |-> n, s |-> <<>>]

StrVal(s) == [kind |-> "str", n |-> 0, s |-> s]

NoneVal == [kind |-> "none", n |-> 0, s |-> <<>>]

Str(v) ==
  CASE v.kind = "int" -> IntToStr(v.n)
    [] v.kind = "str" -> v.s
    [] OTHER -> NoneStr

Contains(s, c) == \E i \in 1..Len(s) : s[i] = c

RECURSIVE Replace(_, _)
Replace(s, c) ==
  IF s = <<>> THEN <<>>
  ELSE (IF s[1] = c THEN <<>> ELSE <<s[1]>>) \o Replace(Tail(s), c)

RECURSIVE Split(_, _)
Split(s, c) ==
  IF ~Contains(s, c) THEN <<s>>
  ELSE LET i == CHOOSE k \in 1..Len(s) : s[k] = c /\ \A j \in 1..(k - 1) : s[j] # c
       IN <<SubSeq(s, 1, i - 1)>> \o Split(SubSeq(s, i + 1, Len(s)), c)

StrIsDigit(s) == s # <<>> /\ \A i \in 1..Len(s) : IsDigit(s[i])

StartsWith(s, c) == s # <<>> /\ s[1] = c

RECURSIVE Strip(_)
Strip(s) ==
  IF s = <<>> THEN <<>>
  ELSE IF IsSpace(s[1]) THEN Strip(Tail(s))
  ELSE IF IsSpace(s[Len(s)]) THEN Strip(SubSeq(s, 1, Len(s) - 1))
  ELSE s

RECURSIVE Join(_, _)
Join(sep, ws) ==
  IF ws = <<>> THEN <<>>
  ELSE IF Len(ws) = 1 THEN ws[1]
  ELSE ws[1] \o sep \o Join(sep, Tail(ws))

\* ------------------------------------------------------------ vocabularies

Codes == {"hi", "bn", "mr", "gu", "te", "kn", "ta", "ml", "or", "pa", "as", "ur", "ne", "sa", "mai", "en"}

LanguageName ==
  [c \in Codes |->
    CASE c = "hi" -> "Hindi" [] c = "bn" -> "Bengali" [] c = "mr" -> "Marathi"
      [] c = "gu" -> "Gujarati" [] c = "te" -> "Telugu" [] c = "kn" -> "Kannada"
      [] c = "ta" -> "Tamil" [] c = "ml" -> "Malayalam" [] c = "or" -> "Odia"
      [] c = "pa" -> "Punjabi" [] c = "as" -> "Assamese" [] c = "ur" -> "Urdu"
      [] c = "ne" -> "Nepali" [] c = "sa" -> "Sanskrit" [] c = "mai" -> "Maithili"
      [] OTHER -> "English"]

Crore == 10000000

Lakh == 100000

Thousand == 1000

Hundred == 100

AtomMax == 99

UpperLetters == {"A", "E", "N", "O"}

EnOnes ==
  <<"one", "two", "three", "four", "five", "six", "seven", "eight", "nine", "ten",
    "eleven", "twelve", "thirteen", "fourteen", "fifteen", "sixteen", "seventeen",
    "eighteen", "nineteen">>

EnTens == <<"ten", "twenty", "thirty", "forty", "fifty", "sixty", "seventy", "eighty", "ninety">>

\* English atoms: 'zero', 'forty two' (two words inside one atom).
EnAtom(n) ==
  IF n = 0 THEN <<"zero">>
  ELSE IF n < 20 THEN <<EnOnes[n]>>
  ELSE IF n % 10 = 0 THEN <<EnTens[n \div 10]>>
  ELSE <<EnTens[n \div 10], " ", EnOnes[n % 10]>>

\* The English table leaves decimal_point and separator to the engine's
\* defaults; its alphabet names a letter by the letter.
EnglishData ==
  [atoms |-> [n \in 0..AtomMax |-> EnAtom(n)],
   magnitudes |-> <<<<Crore, <<"crore">>>>, <<Lakh, <<"lakh">>>>,
                    <<Thousand, <<"thousand">>>>, <<Hundred, <<"hundred">>>>>>,
   alphabet |-> [c \in UpperLetters |-> <<c>>]]

\* Every other language: one word per atom, magnitude and letter.
Word(code, key) == <<code \o "_" \o key>>

IndicData(code) ==
  [atoms |-> [n \in 0..AtomMax |-> Word(code, ToString(n))],
   magnitudes |-> <<<<Crore, Word(code, "crore")>>, <<Lakh, Word(code, "lakh")>>,
                    <<Thousand, Word(code, "thousand")>>, <<Hundred, Word(code, "hundred")>>>>,
   alphabet |-> [c \in UpperLetters |-> Word(code, c)],
   decimal_point |-> Word(code, "point"),
   separator |-> <<" ">>]

LangData(code) == IF code = "en" THEN EnglishData ELSE IndicData(code)

\* ------------------------------------------------------------------ engine

Get(d, k, default) == IF k \in DOMAIN d THEN d[k] ELSE default

NumberEngine(lang_data) ==
  [atoms |-> lang_data.atoms,
   magnitudes |-> lang_data.magnitudes,
   alphabet |-> Get(lang_data, "alphabet", <<>>),
   decimal_point |-> Get(lang_data, "decimal_point", <<"point">>),
   separator |-> Get(lang_data, "separator", <<" ">>)]

ConvertIndividualWords(self, text) ==
  LET kept == SelectSeq(text, LAMBDA c : IsDigit(c) \/ IsAlpha(c))
  IN [i \in 1..Len(kept) |->
        IF IsDigit(kept[i]) THEN self.atoms[DigitVal(kept[i])]
        ELSE Get(self.alphabet, Upper(kept[i]), <<kept[i]>>)]

ConvertIndividual(self, value) ==
  Join(self.separator, ConvertIndividualWords(self, Str(value)))

\* Variant of ConvertCurrency: the remainder is appended when it is 0 too.
RECURSIVE ConvertCurrencyZeroRemainder(_, _)
ConvertCurrencyZeroRemainder(self, number) ==
  IF number \in DOMAIN self.atoms THEN self.atoms[number]
  ELSE LET hits == {i \in 1..Len(self.magnitudes) : number >= self.magnitudes[i][1]}
       IN IF hits = {} THEN ConvertIndividual(self, StrVal(IntToStr(number)))
          ELSE LET i == CHOOSE k \in hits : \A j \in hits : k <= j
                   value == self.magnitudes[i][1]
                   name == self.magnitudes[i][2]
                   quotient == number \div value
                   remainder == number % value
                   head == ConvertCurrencyZeroRemainder(self, quotient)
                             \o self.separator \o name
               IN Strip(IF remainder >= 0
                        THEN head \o self.separator
                               \o ConvertCurrencyZeroRemainder(self, remainder)
                        ELSE head)

\* Variant of Magnitude: a breakpoint matches only a number above it.
MagnitudeAbove(self, number) ==
  LET hits == {i \in 1..Len(self.magnitudes) : number > self.magnitudes[i][1]}
  IN IF hits = {} THEN 0 ELSE CHOOSE k \in hits : \A j \in hits : k <= j

\* for value, name in self.magnitudes: if number >= value: the place of the
\* first entry the number reaches, 0 when the loop ends without one.
Magnitude(self, number) ==
  LET hits == {i \in 1..Len(self.magnitudes) : number >= self.magnitudes[i][1]}
  IN IF hits = {} THEN 0 ELSE CHOOSE k \in hits : \A j \in hits : k <= j

RECURSIVE ConvertCurrency(_, _)
ConvertCurrency(self, number) ==
  IF number \in DOMAIN self.atoms THEN self.atoms[number]
  ELSE LET i == Magnitude(self, number)
       IN IF i = 0 THEN ConvertIndividual(self, StrVal(IntToStr(number)))
          ELSE LET value == self.magnitudes[i][1]
                   name == self.magnitudes[i][2]
                   quotient == number \div value
                   remainder == number % value
                   head == ConvertCurrency(self, quotient) \o self.separator \o name
               IN Strip(IF remainder > 0
                        THEN head \o self.separator \o ConvertCurrency(self, remainder)
                        ELSE head)

ConvertDecimal(self, integer_part, fractional_part) ==
  ConvertCurrency(self, integer_part) \o self.separator \o self.decimal_point
    \o self.separator \o ConvertIndividual(self, StrVal(fractional_part))

None == "none"

Modes == {None, "currency", "individual"}

\* any(c.isalpha() for c in text)
AnyAlpha(text) == \E i \in 1..Len(text) : IsAlpha(text[i])

\* Variant of LeadingZeros: the separators are not taken out before isdigit().
LeadingZerosUnstripped(text) == StartsWith(text, "0") /\ Len(text) > 1 /\ StrIsDigit(text)

\* text.startswith('0') and len(text) > 1 and text.replace(...).isdigit()
LeadingZeros(text) ==
  StartsWith(text, "0") /\ Len(text) > 1
    /\ StrIsDigit(Replace(Replace(Replace(text, ","), " "), "-"))

\* Variant of Cleaned: the commas stay in.
CleanedKeepingCommas(text) == Replace(Replace(text, "-"), " ")

\* text.replace(',', '').replace('-', '').replace(' ', '')
Cleaned(text) == Replace(Replace(Replace(text, ","), "-"), " ")

ParseInput(input_value, mode_override) ==
  LET text == Str(input_value)
      base == [mode |-> IF mode_override = None THEN "currency" ELSE mode_override,
               has_decimal |-> FALSE,
               value |-> NoneVal,
               integer |-> NoneVal,
               fractional |-> NoneVal]
      cleaned == Cleaned(text)
  IN IF AnyAlpha(text)
     THEN [base EXCEPT !.mode = "individual", !.value = StrVal(text)]
     ELSE IF Contains(text, ".")
     THEN LET parts == Split(text, ".")
              int_part == Replace(Replace(Replace(parts[1], ","), " "), "-")
          IN [base EXCEPT !.has_decimal = TRUE,
                          !.integer = IntVal(IF int_part # <<>> /\ StrIsDigit(int_part)
                                             THEN StrToInt(int_part) ELSE 0),
                          !.fractional = StrVal(parts[2])]
     ELSE IF mode_override = None /\ LeadingZeros(text)
     THEN [base EXCEPT !.mode = "individual", !.value = StrVal(text)]
     ELSE LET heuristic ==
                IF mode_override = None /\ (Contains(text, " ") \/ Contains(text, "-"))
                THEN "individual"
                ELSE IF mode_override = None /\ Contains(text, ",")
                THEN "currency"
                ELSE base.mode
          IN IF StrIsDigit(cleaned)
             THEN [base EXCEPT !.mode = heuristic, !.value = IntVal(StrToInt(cleaned))]
             ELSE [base EXCEPT !.mode = "individual", !.value = StrVal(text)]

\* _parse_input raises: int() is given a text that isdigit() let through.
ParseInputRaises(input_value, mode_override) ==
  LET text == Str(input_value)
      int_part == Replace(Replace(Replace(Split(text, ".")[1], ","), " "), "-")
  IN IF AnyAlpha(text) THEN FALSE
     ELSE IF Contains(text, ".")
     THEN int_part # <<>> /\ StrIsDigit(int_part) /\ IntRaises(int_part)
     ELSE IF mode_override = None /\ LeadingZeros(text) THEN FALSE
     ELSE StrIsDigit(Cleaned(text)) /\ IntRaises(Cleaned(text))

\* _convert_individual raises: int(char) on a character that isdigit() let through.
ConvertIndividualRaises(value) == IntRaises(Str(value))

\* Variant of Convert: the currency branch is taken on a truthy value only.
ConvertTruthyValue(self, input_value, mode_arg) ==
  LET parsed == ParseInput(input_value, mode_arg)
  IN IF parsed.mode = "individual" THEN ConvertIndividual(self, parsed.value)
     ELSE IF parsed.has_decimal
     THEN ConvertDecimal(self, parsed.integer.n, parsed.fractional.s)
     ELSE IF parsed.value.n # 0 THEN ConvertCurrency(self, parsed.value.n)
     ELSE <<>>

Convert(self, input_value, mode_arg) ==
  LET parsed == ParseInput(input_value, mode_arg)
  IN IF parsed.mode = "individual" THEN ConvertIndividual(self, parsed.value)
     ELSE IF parsed.has_decimal
     THEN ConvertDecimal(self, parsed.integer.n, parsed.fractional.s)
     ELSE ConvertCurrency(self, parsed.value.n)

\* convert raises ValueError (from int()) instead of returning.
ConvertRaises(self, input_value, mode_arg) ==
  \/ ParseInputRaises(input_value, mode_arg)
  \/ LET parsed == ParseInput(input_value, mode_arg)
     IN IF parsed.mode = "individual" THEN ConvertIndividualRaises(parsed.value)
        ELSE parsed.has_decimal /\ ConvertIndividualRaises(parsed.fractional)

\* ---------------------------------------------------------------- registry

\* sorted() of language codes: Python's string order on the codes in use.
CodeOrder ==
  <<"", "EN", "as", "bn", "en", "gu", "hi", "kn", "mai", "ml", "mr", "ne", "or", "pa",
    "sa", "ta", "te", "ur", "xx">>

\* Variant of EngineAfterConvert: the words of an integer are remembered
\* among the atoms (self.atoms[number] = words).
EngineAfterConvertMemo(self, input_value, mode_arg) ==
  IF input_value.kind = "int" /\ input_value.n >= 0
  THEN [self EXCEPT !.atoms =
          [k \in DOMAIN self.atoms \cup {input_value.n} |->
             IF k = input_value.n THEN Convert(self, input_value, mode_arg)
             ELSE self.atoms[k]]]
  ELSE self

\* The engine as a convert call leaves it.  convert and the methods it calls
\* read self.atoms, self.magnitudes, self.alphabet, self.decimal_point and
\* self.separator and assign to none of them; what they build is local.
EngineAfterConvert(self, input_value, mode_arg) == self

\* A dictionary the caller holds: the object it is and its items.
NoDict == [object |-> "none", items |-> <<>>]

\* Variant of DictCopy: the dictionary itself is handed out.
DictItself(name, items) == [object |-> name, items |-> items]

\* d.copy(): a new dictionary with the items of d.
DictCopy(name, items) == [object |-> "copy", items |-> items]

\* What a caller does to a dictionary it was given: del d[key], d[key] = name,
\* d.clear().
Mutations ==
  {[op |-> "del", key |-> "hi", name |-> ""],
   [op |-> "set", key |-> "xx", name |-> "Klingon"],
   [op |-> "set", key |-> "en", name |-> "Klingon"],
   [op |-> "clear", key |-> "", name |-> ""]}

Mutated(items, u) ==
  IF u.op = "clear" THEN <<>>
  ELSE IF u.op = "del" THEN [k \in DOMAIN items \ {u.key} |-> items[k]]
  ELSE [k \in DOMAIN items \cup {u.key} |-> IF k = u.key THEN u.name ELSE items[k]]


Sorted(keys) == SelectSeq(CodeOrder, LAMBDA c : c \in keys)

NoError == [type |-> "none", message |-> <<>>]

InvalidLiteral == [type |-> "ValueError", message |-> <<"invalid literal for int() with base 10">>]

NoCall == [lang |-> "", input_val |-> NoneVal, mode |-> None, called |-> FALSE]

\* Variant of UnsupportedLanguage: the message does not list the valid codes.
UnsupportedLanguageBare(code, keys) ==
  [type |-> "ValueError", message |-> <<"Language '", code, "' not supported.">>]

UnsupportedLanguage(code, keys) ==
  LET available == Join(<<", ">>, [i \in 1..Len(Sorted(keys)) |-> <<Sorted(keys)[i]>>])
  IN [type |-> "ValueError",
      message |-> <<"Language '", code, "' not supported. Available: ">> \o available]

\* ------------------------------------------------------------------ inputs

InputChars == {"0", "1", "2", "a", "λ", ".", ",", "-", " ", "#", "²"}

Strings(n) == UNION {[1..k -> InputChars] : k \in 0..n}

\* Values the test suite converts, and the breakpoints' neighbours.
Landmarks ==
  {42, 99, 100, 101, 123, 150, 999, 1000, 1234, 2024, 12345, 99999, 100000, 100001,
   123456, 1000000, 10000000, 12345678, 999999999, 1000000000}

NatInputs == (0..MaxInt) \cup Landmarks

IntInputs == ((0 - MaxInt)..MaxInt) \cup Landmarks

InsertAt(s, p, c) == SubSeq(s, 1, p) \o <<c>> \o SubSeq(s, p + 1, Len(s))

\* Indian grouping: the last three digits, then groups of two.
RECURSIVE GroupTwos(_)
GroupTwos(s) ==
  IF Len(s) <= 2 THEN s
  ELSE GroupTwos(SubSeq(s, 1, Len(s) - 2)) \o <<",">> \o SubSeq(s, Len(s) - 1, Len(s))

IndianGrouped(s) ==
  IF Len(s) <= 3 THEN s
  ELSE GroupTwos(SubSeq(s, 1, Len(s) - 3)) \o <<",">> \o SubSeq(s, Len(s) - 2, Len(s))

Fractions == {<<>>, <<"5">>, <<"1", "4">>, <<"5", "0">>, <<"1", "6", "8", ".", "1", ".", "1">>}

Written(n) ==
  LET s == NatToStr(n)
  IN {s, <<"0">> \o s, <<"0", "0">> \o s, <<"-", "0">> \o s, <<" ", "0", "0">> \o s,
      IndianGrouped(s), <<"0">> \o IndianGrouped(s)}
     \cup {InsertAt(s, p, c) : p \in 1..(Len(s) - 1), c \in {",", "-", " "}}
     \cup {s \o <<".">> \o f : f \in Fractions}
     \cup {IndianGrouped(s) \o <<".">> \o f : f \in Fractions}

StringInputs == Strings(MaxLen) \cup UNION {Written(n) : n \in NatInputs}

Inputs == {IntVal(n) : n \in IntInputs} \cup {StrVal(s) : s \in StringInputs}

\* What the all-language tests convert.
SampleInputs ==
  {IntVal(0), IntVal(42), IntVal(1000), IntVal(123456),
   StrVal(<<"0", "0", "7">>), StrVal(<<"3", ".", "1", "4">>), StrVal(<<"a", "1">>),
   StrVal(<<>>)}

LangArgs == Codes \cup {"xx", "EN", ""}

\* num2words(input_val, lang='hi', mode=None): every input in Hindi (the
\* default) and English, the samples in every language and in none.
CallArgs ==
  {<<v, l, m>> : v \in Inputs, l \in {"hi", "en"}, m \in Modes}
    \cup {<<v, l, m>> : v \in SampleInputs, l \in LangArgs, m \in Modes}

\* ----------------------------------------------------------- state machine

\* _convert_currency's invocations, one at a time.  frames holds the calls
\* still to run, the next one first: each with its argument and the argument
\* of the invocation that makes it (-1 for the call from outside); visit is
\* the invocation that ran last and the branch it took.
NoVisit == [number |-> 0, caller |-> -1, kind |-> "none"]

Frame(number, caller) == [number |-> number, caller |-> caller]

Init ==
  /\ engines = [c \in Codes |-> NumberEngine(LangData(c))]
  /\ supported = LanguageName
  /\ pc = "idle"
  /\ input_val = NoneVal
  /\ lang = ""
  /\ mode = None
  /\ result = <<>>
  /\ raised = NoError
  /\ delegated = NoCall
  /\ returned = NoDict
  /\ frames = <<>>
  /\ visit = NoVisit

Num2Words ==
  /\ pc = "idle"
  /\ \E a \in CallArgs :
       LET v == a[1]
           l == a[2]
           m == a[3]
       IN /\ pc' = "num2words"
          /\ input_val' = v
          /\ lang' = l
          /\ mode' = m
          /\ IF l \notin DOMAIN engines
             THEN /\ raised' = UnsupportedLanguage(l, DOMAIN engines)
                  /\ result' = <<>>
                  /\ delegated' = NoCall
                  /\ engines' = engines
             ELSE /\ delegated' = [lang |-> l, input_val |-> v, mode |-> m, called |-> TRUE]
                  /\ IF ConvertRaises(engines[l], v, m)
                     THEN raised' = InvalidLiteral /\ result' = <<>> /\ engines' = engines
                     ELSE /\ raised' = NoError
                          /\ result' = Convert(engines[l], v, m)
                          /\ engines' = [engines EXCEPT
                                           ![l] = EngineAfterConvert(@, v, m)]
  /\ UNCHANGED <<supported, returned, frames, visit>>

GetSupportedLanguages ==
  /\ pc = "idle"
  /\ pc' = "get_supported_languages"
  /\ returned' = DictCopy("SUPPORTED_LANGUAGES", supported)
  /\ UNCHANGED <<engines, supported, input_val, lang, mode, result, raised, delegated,
                 frames, visit>>

\* The caller changes the dictionary get_supported_languages gave it; if that
\* is the registry's own dictionary, the registry's items are the changed ones.
MutateReturned ==
  /\ pc = "get_supported_languages"
  /\ \E u \in Mutations :
       /\ returned' = [returned EXCEPT !.items = Mutated(@, u)]
       /\ supported' = IF returned.object = "SUPPORTED_LANGUAGES"
                       THEN Mutated(supported, u) ELSE supported
  /\ UNCHANGED <<engines, pc, input_val, lang, mode, result, raised, delegated,
                 frames, visit>>

\* The caller is done with what the call gave it and goes on to its next call.
Return ==
  /\ pc # "idle"
  /\ frames = <<>>
  /\ pc' = "idle"
  /\ input_val' = NoneVal
  /\ lang' = ""
  /\ mode' = None
  /\ result' = <<>>
  /\ raised' = NoError
  /\ delegated' = NoCall
  /\ returned' = NoDict
  /\ visit' = NoVisit
  /\ UNCHANGED <<engines, supported, frames>>

\* engine._convert_currency(n) is called.
ConvertCurrencyCall ==
  /\ pc = "idle"
  /\ \E n \in NatInputs, l \in {"hi", "en"} :
       /\ pc' = "convert_currency"
       /\ input_val' = IntVal(n)
       /\ lang' = l
       /\ frames' = <<Frame(n, -1)>>
  /\ UNCHANGED <<engines, supported, mode, result, raised, delegated, returned, visit>>

\* The next invocation runs up to its own recursive calls: an atom returns,
\* a number below every breakpoint goes to the digit fallback, any other one
\* calls itself on the quotient and then, if it is not 0, on the remainder.
ConvertCurrencyStep ==
  /\ pc = "convert_currency"
  /\ frames # <<>>
  /\ LET self == engines[lang]
         number == Head(frames).number
         i == Magnitude(self, number)
         value == self.magnitudes[i][1]
         quotient == number \div value
         remainder == number % value
         ran(kind) == [number |-> number, caller |-> Head(frames).caller, kind |-> kind]
     IN IF number \in DOMAIN self.atoms
        THEN frames' = Tail(frames) /\ visit' = ran("atom")
        ELSE IF i = 0
        THEN frames' = Tail(frames) /\ visit' = ran("fallback")
        ELSE /\ frames' = <<Frame(quotient, number)>>
                            \o (IF remainder > 0 THEN <<Frame(remainder, number)>> ELSE <<>>)
                            \o Tail(frames)
             /\ visit' = ran("magnitude")
  /\ UNCHANGED <<engines, supported, pc, input_val, lang, mode, result, raised, delegated,
                 returned>>

Next ==
  \/ Num2Words
  \/ GetSupportedLanguages
  \/ MutateReturned
  \/ Return

Spec == Init /\ [][Next]_vars

NextCurrency ==
  \/ ConvertCurrencyCall
  \/ ConvertCurrencyStep
  \/ Return

\* The interpreter runs a started call to its end: no invocation waits forever.
SpecCurrency == Init /\ [][NextCurrency]_vars /\ WF_vars(ConvertCurrencyStep)

\* ------------------------------------------------------------------ claims

\* The text of the last call's input, and the engine it went to.
Text == Str(input_val)

Self == engines[lang]

\* The last call reached an engine (the language was supported).
EngineRan == pc = "num2words" /\ delegated.called

LetterFree(s) == \A i \in 1..Len(s) : s[i] \notin Letters

Dots(s) == {i \in 1..Len(s) : s[i] = "."}

FirstDot(s) == CHOOSE i \in Dots(s) : \A j \in Dots(s) : i <= j

BeforeFirstDot(s) == SubSeq(s, 1, FirstDot(s) - 1)

AfterFirstDot(s) == SubSeq(s, FirstDot(s) + 1, Len(s))

\* The digit characters of s, in order.
RECURSIVE DigitsOf(_)
DigitsOf(s) ==
  IF s = <<>> THEN <<>>
  ELSE IF s[Len(s)] \in Digits THEN DigitsOf(SubSeq(s, 1, Len(s) - 1)) \o <<s[Len(s)]>>
  ELSE DigitsOf(SubSeq(s, 1, Len(s) - 1))

\* The number a string of digit characters writes, read left to right.
RECURSIVE Horner(_, _)
Horner(acc, ds) ==
  IF ds = <<>> THEN acc
  ELSE Horner(10 * acc + (CHOOSE d \in 0..9 : DigitChars[d + 1] = ds[1]), Tail(ds))

NumberOf(s) == Horner(0, DigitsOf(s))

\* One atom per digit character of s, joined by the separator.
RECURSIVE DigitByDigit(_, _)
DigitByDigit(self, s) ==
  LET ds == DigitsOf(s)
  IN IF ds = <<>> THEN <<>>
     ELSE IF Len(ds) = 1 THEN self.atoms[NumberOf(ds)]
     ELSE DigitByDigit(self, SubSeq(ds, 1, Len(ds) - 1)) \o self.separator
            \o self.atoms[NumberOf(<<ds[Len(ds)]>>)]

\* The integer part of a dotted text: what precedes the first dot without
\* its , space and -, as a number, and 0 when that is empty or no number.
IntegerPart(s) ==
  LET kept == SelectSeq(BeforeFirstDot(s), LAMBDA c : c \notin {",", " ", "-"})
  IN IF kept # <<>> /\ DigitsOf(kept) = kept THEN NumberOf(kept) ELSE 0

\* The text between the first dot and the next one (or the end).
FirstFraction(s) ==
  LET rest == AfterFirstDot(s)
  IN IF Dots(rest) = {} THEN rest ELSE BeforeFirstDot(rest)

\* C1: a text with a '.' and no letter is rendered as a decimal whatever the
\* mode argument: the currency rendering of its integer part, the separator,
\* the decimal_point word, the separator, and the digit-by-digit rendering of
\* its fractional part; so mode='individual' gives what no mode gives.
C1_DecimalWhateverTheMode ==
  (EngineRan /\ Dots(Text) # {} /\ LetterFree(Text)) =>
    result = ConvertCurrency(Self, IntegerPart(Text)) \o Self.separator
               \o Self.decimal_point \o Self.separator
               \o DigitByDigit(Self, FirstFraction(Text))

\* C2: in the decimal branch of a letter-free text with two or more dots,
\* every digit character after the first dot gives one digit word, in input
\* order, and the later dots give nothing.
C2_FractionIsAllAfterFirstDot ==
  (EngineRan /\ Cardinality(Dots(Text)) >= 2 /\ LetterFree(Text) /\ mode # "individual") =>
    result = ConvertCurrency(Self, IntegerPart(Text)) \o Self.separator
               \o Self.decimal_point \o Self.separator
               \o DigitByDigit(Self, AfterFirstDot(Text))

\* The largest breakpoint of the magnitudes that n reaches.
Breakpoints(self, n) ==
  {self.magnitudes[i][1] : i \in {k \in 1..Len(self.magnitudes) : n >= self.magnitudes[k][1]}}

LargestBreakpoint(self, n) ==
  CHOOSE v \in Breakpoints(self, n) : \A w \in Breakpoints(self, n) : w <= v

MagnitudeWord(self, v) ==
  self.magnitudes[CHOOSE i \in 1..Len(self.magnitudes) : self.magnitudes[i][1] = v][2]

\* C3: renderCurrency(n) is atoms[n] when n is an atom; otherwise, with v the
\* largest breakpoint that n reaches, it is renderCurrency(n div v), the
\* separator and v's word, followed by the separator and renderCurrency(n mod v)
\* exactly when n mod v > 0.
C3_CurrencyDecomposition ==
  (EngineRan /\ input_val.kind = "int" /\ input_val.n >= 0 /\ mode # "individual") =>
    LET n == input_val.n
    IN IF n \in DOMAIN Self.atoms THEN result = Self.atoms[n]
       ELSE LET v == LargestBreakpoint(Self, n)
                front == ConvertCurrency(Self, n \div v) \o Self.separator
                           \o MagnitudeWord(Self, v)
            IN /\ Breakpoints(Self, n) # {}
               /\ result = IF n % v > 0
                           THEN front \o Self.separator \o ConvertCurrency(Self, n % v)
                           ELSE front

\* One lakh: an exact multiple, with no remainder words.
C3_Witness ==
  /\ EngineRan /\ lang = "en" /\ mode = None
  /\ input_val = IntVal(100000)
  /\ result = <<"one", " ", "lakh">>

\* What each character of s says: a digit its atom, a letter the alphabet's
\* word for its uppercase or else the character, anything else nothing.
RECURSIVE Spoken(_, _)
Spoken(self, s) ==
  IF s = <<>> THEN <<>>
  ELSE LET c == s[1]
           said == IF c \in Digits THEN <<self.atoms[NumberOf(<<c>>)]>>
                   ELSE IF c \in Letters
                   THEN (IF Upper(c) \in DOMAIN self.alphabet
                         THEN <<self.alphabet[Upper(c)]>> ELSE <<<<c>>>>)
                   ELSE <<>>
       IN said \o Spoken(self, Tail(s))

\* C4: a text with a letter is read character by character whatever the mode
\* argument: the words of its digits and letters, in order, joined by the
\* separator; every other character gives nothing.
C4_LettersForceIndividual ==
  (EngineRan /\ ~LetterFree(Text)) => result = Join(Self.separator, Spoken(Self, Text))

OnlyOf(s, chars) == \A i \in 1..Len(s) : s[i] \in chars

\* C5: with no mode argument, a text of digits, spaces and hyphens only, with
\* at least one space or hyphen, is read digit by digit: one word per digit
\* character, the i-th word the atom of the i-th digit.
C5_SeparatorsReadDigitByDigit ==
  (/\ EngineRan /\ mode = None /\ input_val.kind = "str"
   /\ OnlyOf(Text, Digits \cup {" ", "-"})
   /\ \E i \in 1..Len(Text) : Text[i] \in {" ", "-"}) =>
    result = DigitByDigit(Self, Text)

\* C6: with mode='individual', an integer or a string of digits is read digit
\* by digit: one word per digit character of the stringified input, in order.
C6_ExplicitIndividualReadsDigits ==
  (/\ EngineRan /\ mode = "individual"
   /\ \/ input_val.kind = "int"
      \/ input_val.kind = "str" /\ Text # <<>> /\ OnlyOf(Text, Digits)) =>
    result = DigitByDigit(Self, Text)

\* C7: with no mode argument, a text longer than one character that starts
\* with '0' and holds only digits and, after the first character, ',', space
\* or '-', keeps its leading zeros: one word per digit character, in order.
C7_LeadingZeroKept ==
  (/\ EngineRan /\ mode = None /\ input_val.kind = "str"
   /\ Len(Text) > 1 /\ Text[1] = "0"
   /\ OnlyOf(Text, Digits \cup {",", " ", "-"})) =>
    result = DigitByDigit(Self, Text)

\* "0-1": the zero is said, the hyphen is not.
C7_Witness ==
  /\ EngineRan /\ lang = "en" /\ mode = None
  /\ input_val = StrVal(<<"0", "-", "1">>)
  /\ result = <<"zero", " ", "one">>

\* C8: a text without letters or '.', with at least one digit and otherwise
\* only ',', space or '-', is rendered as the currency form of the number its
\* digits write, when mode='currency' is given (a leading '0' included), and
\* when no mode is given, the text does not start with '0' and has no space
\* or hyphen.
C8_CurrencyOfStrippedDigits ==
  (/\ EngineRan /\ input_val.kind = "str"
   /\ OnlyOf(Text, Digits \cup {",", " ", "-"})
   /\ DigitsOf(Text) # <<>>
   /\ \/ mode = "currency"
      \/ mode = None /\ Text[1] # "0" /\ OnlyOf(Text, Digits \cup {","})) =>
    result = ConvertCurrency(Self, NumberOf(Text))

\* "1,23,456" with no mode: one lakh twenty three thousand four hundred fifty six.
C8_Witness ==
  /\ EngineRan /\ lang = "en" /\ mode = None
  /\ input_val = StrVal(<<"1", ",", "2", "3", ",", "4", "5", "6">>)
  /\ result = <<"one", " ", "lakh", " ", "twenty", " ", "three", " ", "thousand", " ",
                "four", " ", "hundred", " ", "fifty", " ", "six">>

InMessage(piece) == \E i \in 1..Len(raised.message) : raised.message[i] = piece

\* C9: num2words with a language code outside the registry raises ValueError
\* before any engine runs, and the message carries the code asked for and
\* every valid code; with a code of the registry it does not raise and hands
\* the same input and mode to that language's engine.
C9_UnsupportedLanguageRejected ==
  pc = "num2words" =>
    IF lang \in DOMAIN engines
    THEN /\ ~InMessage("Language '")
         /\ delegated = [lang |-> lang, input_val |-> input_val, mode |-> mode, called |-> TRUE]
         /\ raised.type = "none" => result = Convert(engines[lang], input_val, mode)
    ELSE /\ raised.type = "ValueError"
         /\ InMessage("Language '")
         /\ ~delegated.called
         /\ result = <<>>
         /\ InMessage(lang)
         /\ \A c \in DOMAIN engines : InMessage(c)

\* num2words(42, lang='xx')
C9_Witness ==
  /\ pc = "num2words" /\ lang = "xx" /\ input_val = IntVal(42)
  /\ raised.type = "ValueError"
  /\ raised.message[2] = "xx"
  /\ ~delegated.called

\* atoms cover 0..99 with non-empty words, and the magnitude words are non-empty.
CompleteVocabulary(self) ==
  /\ \A n \in 0..99 : n \in DOMAIN self.atoms /\ self.atoms[n] # <<>>
  /\ \A i \in 1..Len(self.magnitudes) : self.magnitudes[i][2] # <<>>

\* C10: with no mode argument and a complete vocabulary, a non-negative
\* integer never gives the empty string, and 0 gives exactly the zero atom.
C10_NeverEmpty ==
  (/\ EngineRan /\ mode = None /\ input_val.kind = "int" /\ input_val.n >= 0
   /\ CompleteVocabulary(Self)) =>
    /\ result # <<>>
    /\ \E i \in 1..Len(result) : result[i] # " "
    /\ input_val.n = 0 => result = Self.atoms[0]

\* num2words(0, lang='hi')
C10_Witness ==
  /\ EngineRan /\ lang = "hi" /\ mode = None
  /\ input_val = IntVal(0)
  /\ result = <<"hi_0">>

\* Every call still to run has an argument below its caller's.
Decreasing == \A k \in 1..Len(frames) :
  frames[k].caller = -1 \/ frames[k].number < frames[k].caller

\* C11: with atoms 0..99 and the breakpoints 10000000, 100000, 1000, 100,
\* renderCurrency(n) terminates for every n >= 0: each recursive call, on the
\* quotient or on the remainder, has an argument strictly below its caller's,
\* no invocation reaches the digit fallback, and the call ends, its last
\* invocations being atom lookups.
C11_CurrencyTerminates ==
  /\ [](Decreasing /\ visit.kind # "fallback")
  /\ [](frames = <<>> /\ pc = "convert_currency" => visit.kind = "atom")
  /\ (pc = "convert_currency") ~> (pc = "convert_currency" /\ frames = <<>>)

\* 123456 is done: lakh, thousand and hundred were split off, 56 came last.
C11_Witness ==
  /\ pc = "convert_currency" /\ lang = "en"
  /\ input_val = IntVal(123456)
  /\ frames = <<>>
  /\ visit = [number |-> 56, caller |-> 456, kind |-> "atom"]

\* What is left of s without its ',', '-' and space is one or more digits
\* (anything isdigit() takes for one).
AllDigitsStripped(s) ==
  LET kept == SelectSeq(s, LAMBDA c : c \notin {",", "-", " "})
  IN kept # <<>> /\ OnlyOf(kept, Digits \cup NonDecimalDigits)

\* C12: a text without letters or '.', whose rest after stripping ',', '-' and
\* space is not all digits (the empty text and texts with other characters
\* included), never makes convert raise, whatever the mode argument: the
\* result is the character-by-character rendering of the text as given
\* (empty for the empty text).
C12_JunkFallsBackToIndividual ==
  (/\ EngineRan /\ input_val.kind = "str"
   /\ LetterFree(Text) /\ Dots(Text) = {}
   /\ ~AllDigitsStripped(Text)) =>
    /\ raised.type = "none"
    /\ result = Join(Self.separator, Spoken(Self, Text))

\* The engines constructed from the vocabularies, one for each code.
FreshEngines == [c \in Codes |-> NumberEngine(LangData(c))]

Fresh(c) == FreshEngines[c]

\* C13: the engine keeps no state across calls.  After any calls every
\* engine's atoms, magnitudes, alphabet, decimal_point and separator are what
\* the constructor set, and a call that reaches an engine raises or returns
\* exactly what the same call does on a freshly constructed engine with the
\* same vocabulary.
C13_EngineKeepsNoState ==
  /\ \A c \in DOMAIN engines :
       /\ engines[c].atoms = Fresh(c).atoms
       /\ engines[c].magnitudes = Fresh(c).magnitudes
       /\ engines[c].alphabet = Fresh(c).alphabet
       /\ engines[c].decimal_point = Fresh(c).decimal_point
       /\ engines[c].separator = Fresh(c).separator
  /\ EngineRan =>
       IF ConvertRaises(Fresh(lang), input_val, mode)
       THEN raised.type = "ValueError" /\ result = <<>>
       ELSE raised.type = "none" /\ result = Convert(Fresh(lang), input_val, mode)

\* num2words(21, lang='hi', mode='individual') has returned.
C13_Witness ==
  /\ EngineRan /\ lang = "hi" /\ mode = "individual"
  /\ input_val = IntVal(21)
  /\ result = <<"hi_2", " ", "hi_1">>
  /\ engines["hi"] = Fresh("hi")

\* C14: the registry invariant.  Whatever calls were made and whatever the
\* caller did to the dictionaries it was given, the codes a new
\* get_supported_languages call reports and the codes num2words accepts are
\* the same fixed 16 codes: num2words raises the unsupported-language error
\* exactly for the other codes, and the names reported are the registry's.
C14_RegistryInvariant ==
  /\ Cardinality(Codes) = 16
  /\ DOMAIN DictCopy("SUPPORTED_LANGUAGES", supported).items = Codes
  /\ DictCopy("SUPPORTED_LANGUAGES", supported).items = LanguageName
  /\ {l \in LangArgs : l \in DOMAIN engines} = Codes
  /\ pc = "num2words" =>
       /\ delegated.called <=> lang \in Codes
       /\ InMessage("Language '") <=> lang \notin Codes

\* The caller deleted 'hi' from the dictionary it was given and added 'xx'.
C14_Witness ==
  /\ pc = "get_supported_languages"
  /\ "hi" \notin DOMAIN returned.items
  /\ "xx" \in DOMAIN returned.items
  /\ returned.items["en"] = "English"
  /\ DOMAIN supported = Codes

====
